---- MODULE Spec2Model ----
(***************************************************************************)
(* A model of DockQ (src/src/DockQ/DockQ.py): the residue correspondence   *)
(* builder, the clustering of model chains, the chain-mapping search of    *)
(* main(), the per-interface evaluation and the composite score.           *)
(*                                                                         *)
(* Four specifications share the variables:                                *)
(*   SpecAlign   align_chains, format_alignment, group_model_chains' test  *)
(*               and get_aligned_residues on one (model, native) chain pair*)
(*   Spec        main(): group_model_chains, the enumeration of mappings,  *)
(*               the loop over run_on_all_native_interfaces                *)
(*   SpecDockQ   calc_DockQ on one pair of chain groups                    *)
(*   SpecFormula dockq_formula on a grid of exact rationals                *)
(* A specification leaves the variables of the others at their idle value. *)
(***************************************************************************)
EXTENDS Integers, Sequences, FiniteSets, TLC

\* ------------------------------------------------------------------------
\* Bounds of the model
\* ------------------------------------------------------------------------

\* longest residue sequence of a chain handed to the aligner
MaxLen == 3

\* one-letter residue codes (seq1 of the residue names) used in the sequences
Alphabet == {"A", "C"}

\* the gap symbol of the formatted alignment
Gap == "-"

\* Python's None
None == [py |-> "None"]

\* ------------------------------------------------------------------------
\* Sequence helpers
\* ------------------------------------------------------------------------

\* all sequences over S of length lo..hi
SeqsOf(S, lo, hi) == UNION {[1..n -> S] : n \in lo..hi}

\* the residue sequences of the chains that are aligned
SeqCatalog == SeqsOf(Alphabet, 1, MaxLen)

RECURSIVE SumSeq(_)
SumSeq(s) == IF s = <<>> THEN 0 ELSE Head(s) + SumSeq(Tail(s))

\* Python: x in seq
In(x, s) == \E i \in 1..Len(s) : s[i] = x

\* ------------------------------------------------------------------------
\* Exact rationals [num, den], den > 0, in lowest terms: the floats of the
\* program without their rounding
\* ------------------------------------------------------------------------

RECURSIVE Gcd(_, _)
Gcd(a, b) == IF b = 0 THEN a ELSE Gcd(b, a % b)

Abs(x) == IF x < 0 THEN -x ELSE x

Rat(n, d) ==
    LET g == Gcd(Abs(n), Abs(d))
        sign == IF d < 0 THEN -1 ELSE 1
    IN  [num |-> sign * (n \div g), den |-> sign * (d \div g)]

RAdd(x, y) == Rat(x.num * y.den + y.num * x.den, x.den * y.den)
RMul(x, y) == Rat(x.num * y.num, x.den * y.den)
RDiv(x, y) == Rat(x.num * y.den, x.den * y.num)
RLess(x, y) == x.num * y.den < y.num * x.den
RLeq(x, y) == x.num * y.den <= y.num * x.den

RZero == Rat(0, 1)
ROne == Rat(1, 1)

\* ------------------------------------------------------------------------
\* The composite score
\* ------------------------------------------------------------------------

\* the formula with the division by 3 bound to the last term only
dockq_formula_unparenthesised(fnat, irms, Lrms) ==
    RAdd(RAdd(fnat,
              RDiv(ROne, RAdd(ROne, RMul(RDiv(irms, Rat(3, 2)), RDiv(irms, Rat(3, 2)))))),
         RDiv(RDiv(ROne, RAdd(ROne, RMul(RDiv(Lrms, Rat(17, 2)), RDiv(Lrms, Rat(17, 2))))),
              Rat(3, 1)))

\* dockq_formula: 1.5 is 3/2 and 8.5 is 17/2
dockq_formula(fnat, irms, Lrms) ==
    RDiv(RAdd(RAdd(fnat,
                   RDiv(ROne, RAdd(ROne, RMul(RDiv(irms, Rat(3, 2)), RDiv(irms, Rat(3, 2)))))),
              RDiv(ROne, RAdd(ROne, RMul(RDiv(Lrms, Rat(17, 2)), RDiv(Lrms, Rat(17, 2)))))),
         Rat(3, 1))

\* ------------------------------------------------------------------------
\* The aligner (Bio.Align.PairwiseAligner, global mode) as align_chains
\* configures it. An alignment is a sequence of columns <<a, b>>: a the
\* symbol of the model (target) track, b of the native (query) track, Gap
\* for a gap.
\* ------------------------------------------------------------------------

match == 5
mismatch == 0
open_gap_score == -10
\* extend_gap_score is -0.5: scores are kept in halves
extend_gap_score_x2 == -1

RECURSIVE Alignments(_, _)
Alignments(s, t) ==
    IF s = <<>> /\ t = <<>> THEN {<<>>}
    ELSE (IF s # <<>> /\ t # <<>>
            THEN {<< <<Head(s), Head(t)>> >> \o r : r \in Alignments(Tail(s), Tail(t))}
            ELSE {})
         \cup (IF s # <<>>
            THEN {<< <<Head(s), Gap>> >> \o r : r \in Alignments(Tail(s), t)}
            ELSE {})
         \cup (IF t # <<>>
            THEN {<< <<Gap, Head(t)>> >> \o r : r \in Alignments(s, Tail(t))}
            ELSE {})

\* twice the score of column i of an alignment (affine gaps, per track)
ColumnScore_x2(aln, i) ==
    LET c == aln[i] IN
    IF c[1] = Gap
      THEN IF i > 1 /\ aln[i-1][1] = Gap THEN extend_gap_score_x2 ELSE 2 * open_gap_score
    ELSE IF c[2] = Gap
      THEN IF i > 1 /\ aln[i-1][2] = Gap THEN extend_gap_score_x2 ELSE 2 * open_gap_score
    ELSE IF c[1] = c[2] THEN 2 * match ELSE 2 * mismatch

Score_x2(aln) == SumSeq([i \in 1..Len(aln) |-> ColumnScore_x2(aln, i)])

\* align_chains (sequence mode): the aligner returns one optimal global
\* alignment; which one among equally good ones is the library's choice
align_chains(model_sequence, native_sequence) ==
    LET all == Alignments(model_sequence, native_sequence) IN
    {a \in all : \A b \in all : Score_x2(b) <= Score_x2(a)}

\* format_alignment: the three tracks of aln.format()
format_alignment(aln) ==
    [seqA    |-> [i \in 1..Len(aln) |-> aln[i][1]],
     matches |-> [i \in 1..Len(aln) |->
                    IF aln[i][1] = Gap \/ aln[i][2] = Gap THEN "-"
                    ELSE IF aln[i][1] = aln[i][2] THEN "|" ELSE "."],
     seqB    |-> [i \in 1..Len(aln) |-> aln[i][2]]]

\* every formatted alignment the aligner returns on the catalog
AlignerOutputs ==
    UNION {{format_alignment(a) : a \in align_chains(p[1], p[2])} :
              p \in SeqCatalog \X SeqCatalog}

\* ------------------------------------------------------------------------
\* get_aligned_residues: residues are named by their position in the chain
\* ------------------------------------------------------------------------

\* the loop body with the native pointer advancing on every column, gap or not
AlignedStep_ignores_gap(alignment, st, i) ==
    LET pA == IF alignment.seqA[i] # "-" THEN st.pA + 1 ELSE st.pA
        pB == st.pB + 1
    IN  IF alignment.matches[i] = "|"
          THEN [pA |-> pA, pB |-> pB,
                resA |-> Append(st.resA, pA), resB |-> Append(st.resB, pB)]
          ELSE [pA |-> pA, pB |-> pB, resA |-> st.resA, resB |-> st.resB]

\* one pass of the loop body for column i; st = [pA, pB, resA, resB]
AlignedStep(alignment, st, i) ==
    LET pA == IF alignment.seqA[i] # "-" THEN st.pA + 1 ELSE st.pA
        pB == IF alignment.seqB[i] # "-" THEN st.pB + 1 ELSE st.pB
    IN  IF alignment.matches[i] = "|"
          THEN [pA |-> pA, pB |-> pB,
                resA |-> Append(st.resA, pA), resB |-> Append(st.resB, pB)]
          ELSE [pA |-> pA, pB |-> pB, resA |-> st.resA, resB |-> st.resB]

RECURSIVE AlignedLoop(_, _)
AlignedLoop(alignment, n) ==
    IF n = 0 THEN [pA |-> 0, pB |-> 0, resA |-> <<>>, resB |-> <<>>]
    ELSE AlignedStep(alignment, AlignedLoop(alignment, n - 1), n)

get_aligned_residues(alignment) ==
    LET st == AlignedLoop(alignment, Len(alignment.matches))
    IN  <<st.resA, st.resB>>

\* ------------------------------------------------------------------------
\* group_model_chains: the membership test of one alignment target
\* ------------------------------------------------------------------------

cluster_member(alignment) ==
    /\ ~ In(".", alignment.matches)
    /\ (~ In("-", alignment.seqA) \/ ~ In("-", alignment.seqB))

\* ------------------------------------------------------------------------
\* State
\* ------------------------------------------------------------------------

VARIABLES
    \* SpecAlign: one (model chain, native chain) pair
    a_pc,           \* "idle", "start", "aligned", "grouped", "done"
    a_model,        \* model_sequence
    a_native,       \* native_sequence
    a_alignment,    \* the formatted alignment (seqA, matches, seqB)
    a_member,       \* group_model_chains put the model chain in the cluster
    a_res,          \* <<aligned_resA, aligned_resB>>
    \* Spec: main()
    pc,             \* "idle", "group", "enumerate", "loop", "run", "compare", "done", "crashed"
    native_contacts,        \* native chain pair -> its number of native contacts
    gi,                     \* position in alignment_targets
    native_chain_clusters,  \* native chain -> list of model chains
    all_mappings,
    mi,                     \* position of the loop in all_mappings
    chain_map,
    result_this_mapping,
    best_dockq,
    best_result,
    cache,                  \* lru_cache of run_on_chains: key -> info
    evaluated,              \* history: what each pass of the loop was given and returned
    \* SpecFormula: two evaluations of dockq_formula
    f_done,         \* the evaluations done, a subset of {1, 2}
    f_args,         \* evaluation -> [fnat, irms, Lrms]
    f_dockq,        \* evaluation -> the value returned
    \* SpecDockQ: calc_DockQ on one pair of chain groups
    d_pc,           \* "idle", "start", "align", "distances", "stats", "classify", "info", "returned"
    d_capri,        \* capri_peptide
    d_ref_size,     \* <<len(ref_chains[0]), len(ref_chains[1])>>
    d_ref_dist,     \* squared distance of every residue pair of the two native chains
    d_nat_total,
    d_aligned,      \* [sample1, ref1, sample2, ref2]: the aligned residue lists
    d_sample_res_distances,
    d_ref_res_distances,
    d_stats,        \* [nat_correct, nonnat_count, model_total, fnat, fnonnat]
    d_roles,        \* [receptor, ligand, class1, class2]
    d_info,         \* the value calc_DockQ returns
    \* SpecCache: the calls of run_on_chains in the search on a homo-oligomer
    k_pc,           \* "idle", "loop", "done"
    k_chains,       \* number of chains of the native and of the model
    k_mappings,     \* all_mappings
    k_mi,           \* position of the loop in all_mappings
    k_pi,           \* position of run_on_all_native_interfaces in the chain pairs
    k_cache,        \* keys held by the lru_cache, least recently used first
    k_calls,        \* key -> number of times run_on_chains was computed
    \* SpecNumbering: align_chains with use_numbering
    n_pc,               \* "idle", "start", "encoded", "crashed"
    n_model_numbering,
    n_native_numbering,
    n_min_resn,
    n_model_sequence,   \* the characters, each given by its code point
    n_native_sequence,
    \* SpecInterface: the interface residues of calc_DockQ
    i_pc,           \* "idle", "start", "align", "pairs", "atoms", "returned", "crashed"
    i_capri,        \* capri_peptide
    i_ref_size,     \* <<len(ref_chains[0]), len(ref_chains[1])>>
    i_ref_dist,     \* all-atom squared distance of every pair of native residues
    i_cb_dist,      \* CB squared distance of every pair of native residues
    i_aligned,      \* [sample1, ref1, sample2, ref2]: the aligned residue lists
    i_matrix_res,   \* the two residue lists the interface distances were measured on
    i_interacting_pairs,    \* <<row indices, column indices>>
    i_interface,    \* the residues get_interface_atoms takes the atoms of
    \* SpecAtoms: the atom lists calc_DockQ hands to the superimposers
    t_pc,           \* "idle", "start", "interface", "done"
    t_use_CA_only,
    t_ref_atoms,    \* group -> aligned native residues, each the list of its atom ids
    t_mod_atoms,    \* group -> aligned model residues, each the list of its atom ids
    t_interface,    \* [mod, ref]: what get_interface_atoms returns
    t_chain_atoms   \* group -> [native, sample]: get_atoms_per_residue on both lists

alignVars == <<a_pc, a_model, a_native, a_alignment, a_member, a_res>>
searchVars == <<pc, native_contacts, gi, native_chain_clusters, all_mappings, mi,
                chain_map, result_this_mapping, best_dockq, best_result, cache,
                evaluated>>
formulaVars == <<f_done, f_args, f_dockq>>
dockqVars == <<d_pc, d_capri, d_ref_size, d_ref_dist, d_nat_total, d_aligned,
               d_sample_res_distances, d_ref_res_distances, d_stats, d_roles, d_info>>
cacheVars == <<k_pc, k_chains, k_mappings, k_mi, k_pi, k_cache, k_calls>>
numberingVars == <<n_pc, n_model_numbering, n_native_numbering, n_min_resn,
                   n_model_sequence, n_native_sequence>>
interfaceVars == <<i_pc, i_capri, i_ref_size, i_ref_dist, i_cb_dist, i_aligned,
                   i_matrix_res, i_interacting_pairs, i_interface>>
atomsVars == <<t_pc, t_use_CA_only, t_ref_atoms, t_mod_atoms, t_interface, t_chain_atoms>>
vars == <<alignVars, searchVars, formulaVars, dockqVars, cacheVars, numberingVars,
          interfaceVars, atomsVars>>
nonAlignVars == <<searchVars, formulaVars, dockqVars, cacheVars, numberingVars,
                  interfaceVars, atomsVars>>
nonSearchVars == <<alignVars, formulaVars, dockqVars, cacheVars, numberingVars,
                   interfaceVars, atomsVars>>
nonFormulaVars == <<alignVars, searchVars, dockqVars, cacheVars, numberingVars,
                    interfaceVars, atomsVars>>
nonDockQVars == <<alignVars, searchVars, formulaVars, cacheVars, numberingVars,
                  interfaceVars, atomsVars>>
nonCacheVars == <<alignVars, searchVars, formulaVars, dockqVars, numberingVars,
                  interfaceVars, atomsVars>>
nonNumberingVars == <<alignVars, searchVars, formulaVars, dockqVars, cacheVars,
                      interfaceVars, atomsVars>>
nonInterfaceVars == <<alignVars, searchVars, formulaVars, dockqVars, cacheVars,
                      numberingVars, atomsVars>>
nonAtomsVars == <<alignVars, searchVars, formulaVars, dockqVars, cacheVars,
                  numberingVars, interfaceVars>>

AlignIdle ==
    /\ a_pc = "idle" /\ a_model = <<>> /\ a_native = <<>>
    /\ a_alignment = None /\ a_member = None /\ a_res = None

SearchIdle ==
    /\ pc = "idle" /\ native_contacts = <<>> /\ gi = 0
    /\ native_chain_clusters = <<>> /\ all_mappings = <<>> /\ mi = 0
    /\ chain_map = None /\ result_this_mapping = None
    /\ best_dockq = 0 /\ best_result = None /\ cache = <<>> /\ evaluated = <<>>

FormulaIdle == f_done = {} /\ f_args = <<>> /\ f_dockq = <<>>

DockQIdle ==
    /\ d_pc = "idle" /\ d_capri = FALSE /\ d_ref_size = <<>> /\ d_ref_dist = <<>>
    /\ d_nat_total = 0 /\ d_aligned = None
    /\ d_sample_res_distances = <<>> /\ d_ref_res_distances = <<>>
    /\ d_stats = None /\ d_roles = None /\ d_info = None

CacheIdle ==
    /\ k_pc = "idle" /\ k_chains = 0 /\ k_mappings = <<>> /\ k_mi = 0 /\ k_pi = 0
    /\ k_cache = <<>> /\ k_calls = <<>>

NumberingIdle ==
    /\ n_pc = "idle" /\ n_model_numbering = <<>> /\ n_native_numbering = <<>>
    /\ n_min_resn = 0 /\ n_model_sequence = <<>> /\ n_native_sequence = <<>>

InterfaceIdle ==
    /\ i_pc = "idle" /\ i_capri = FALSE /\ i_ref_size = <<>> /\ i_ref_dist = <<>>
    /\ i_cb_dist = <<>> /\ i_aligned = None /\ i_matrix_res = None
    /\ i_interacting_pairs = None /\ i_interface = None

AtomsIdle ==
    /\ t_pc = "idle" /\ t_use_CA_only = FALSE /\ t_ref_atoms = <<>> /\ t_mod_atoms = <<>>
    /\ t_interface = None /\ t_chain_atoms = None

\* ------------------------------------------------------------------------
\* SpecAlign
\* ------------------------------------------------------------------------

AlignInit ==
    /\ a_pc = "start"
    /\ a_model \in SeqCatalog
    /\ a_native \in SeqCatalog
    /\ a_alignment = None /\ a_member = None /\ a_res = None
    /\ SearchIdle
    /\ FormulaIdle
    /\ DockQIdle
    /\ CacheIdle
    /\ NumberingIdle
    /\ InterfaceIdle
    /\ AtomsIdle

\* run_on_chains / group_model_chains: aln = align_chains(...); format_alignment(aln)
AlignChains ==
    /\ a_pc = "start"
    /\ \E aln \in align_chains(a_model, a_native) :
          a_alignment' = format_alignment(aln)
    /\ a_pc' = "aligned"
    /\ UNCHANGED <<a_model, a_native, a_member, a_res, nonAlignVars>>

\* group_model_chains: the test of this alignment target
GroupTest ==
    /\ a_pc = "aligned"
    /\ a_member' = cluster_member(a_alignment)
    /\ a_pc' = "grouped"
    /\ UNCHANGED <<a_model, a_native, a_alignment, a_res, nonAlignVars>>

\* calc_DockQ: get_aligned_residues(sample_chain, ref_chain, alignment)
GetAligned ==
    /\ a_pc \in {"aligned", "grouped"}
    /\ a_res' = get_aligned_residues(a_alignment)
    /\ a_pc' = "done"
    /\ UNCHANGED <<a_model, a_native, a_alignment, a_member, nonAlignVars>>

AlignNext == AlignChains \/ GroupTest \/ GetAligned

SpecAlign == AlignInit /\ [][AlignNext]_vars

\* ------------------------------------------------------------------------
\* Spec: the chain-mapping search of main()
\* ------------------------------------------------------------------------

\* number of chains of the native structure
NumNative == 3

\* a fresh evaluation of a chain pair scores DockQ in 1..MaxDockQ (a scale of
\* the float in (0, 1])
MaxDockQ == 2

\* nat_total of a native chain pair: no native contact, or one
NatTotals == {0, 1}

\* main: native_chains = [c.id for c in native_structure]
native_chains == SubSeq(<<"A", "B", "C", "D">>, 1, NumNative)

\* main: model_chains = [c.id for c in model_structure]
model_chains == <<"X", "Y", "Z">>

RECURSIVE Flatten(_)
Flatten(ss) == IF ss = <<>> THEN <<>> ELSE Head(ss) \o Flatten(Tail(ss))

\* itertools.product(*lists): tuples in lexicographic order, the last list
\* running fastest; product() of no list is the one empty tuple
RECURSIVE product(_)
product(lists) ==
    IF lists = <<>> THEN << <<>> >>
    ELSE LET rest == product(Tail(lists))
             first == Head(lists)
         IN  Flatten([i \in 1..Len(first) |->
                        [j \in 1..Len(rest) |-> <<first[i]>> \o rest[j]]])

\* itertools.combinations(ids, 2), in order
combinations2(ids) ==
    Flatten([i \in 1..Len(ids) |->
               [k \in 1..(Len(ids) - i) |-> <<ids[i], ids[i + k]>>]])

\* group_model_chains: alignment_targets = itertools.product(model_chains, native_chains)
alignment_targets == product(<<model_chains, native_chains>>)

NativePairs == {combinations2(native_chains)[i] : i \in 1..Len(combinations2(native_chains))}

\* the filter with <= for ==: it keeps every tuple
no_chain_twice_kept_all(element) ==
    Cardinality({element[i] : i \in 1..Len(element)}) <= Len(element)

\* main: len(set(element)) == len(element)
no_chain_twice(element) ==
    Cardinality({element[i] : i \in 1..Len(element)}) = Len(element)

\* main: the list of mappings the loop runs over
enumerate_mappings(clusters) ==
    LET values == [i \in 1..Len(native_chains) |-> clusters[native_chains[i]]]
        nonempty == SelectSeq(values, LAMBDA cluster : cluster # <<>>)
    IN  SelectSeq(product(nonempty), no_chain_twice)

\* calc_DockQ without its early return: a pair without native contact is
\* scored, with DockQ 0
calc_DockQ_info_no_return(nat_total, dockq) ==
    [DockQ |-> IF nat_total = 0 THEN 0 ELSE dockq, nat_total |-> nat_total]

\* calc_DockQ as run_on_chains sees it: None when the native pair has no
\* contact, else the info record (dockq: the score of this evaluation)
calc_DockQ_info(nat_total, dockq) ==
    IF nat_total = 0 THEN None
    ELSE [DockQ |-> dockq, nat_total |-> nat_total]

\* Python's truth value of info (None, or a dict with entries)
truthy(info) == info # None

\* run_on_all_native_interfaces: the model chains of a native chain pair
model_pair(cmap, chain_pair) == <<cmap[chain_pair[1]], cmap[chain_pair[2]]>>

\* run_on_all_native_interfaces: info["chain1"], info["chain2"] = model_chains
with_chains(info, mchains) ==
    [DockQ |-> info.DockQ, nat_total |-> info.nat_total,
     chain1 |-> mchains[1], chain2 |-> mchains[2]]

\* run_on_chains under lru_cache: the cached info of a key, or a fresh
\* evaluation scoring fresh[chain_pair]
run_on_chains(memo, key, fresh) ==
    IF key \in DOMAIN memo THEN memo[key]
    ELSE calc_DockQ_info(native_contacts[key[2]], fresh[key[2]])

\* run_on_all_native_interfaces: results_dic
results_of(memo, cmap, fresh) ==
    LET scored == {chain_pair \in NativePairs :
                     truthy(run_on_chains(memo, <<model_pair(cmap, chain_pair), chain_pair>>, fresh))}
    IN  [chain_pair \in scored |->
           with_chains(run_on_chains(memo, <<model_pair(cmap, chain_pair), chain_pair>>, fresh),
                       model_pair(cmap, chain_pair))]

\* the cache after run_on_all_native_interfaces: every key it asked for is
\* stored; the write of chain1/chain2 goes to the stored dict itself
cache_after(memo, cmap, fresh) ==
    LET keys == {<<model_pair(cmap, chain_pair), chain_pair>> : chain_pair \in NativePairs}
    IN  [key \in DOMAIN memo \cup keys |->
           IF key \in keys
             THEN LET info == run_on_chains(memo, key, fresh)
                  IN  IF truthy(info) THEN with_chains(info, key[1]) ELSE info
             ELSE memo[key]]

\* main: sum([result["DockQ"] for result in result_this_mapping.values()])
RECURSIVE SumDockQ(_, _)
SumDockQ(results, pairs) ==
    IF pairs = {} THEN 0
    ELSE LET p == CHOOSE q \in pairs : TRUE
         IN  results[p].DockQ + SumDockQ(results, pairs \ {p})

total_dockq_of(results) == SumDockQ(results, DOMAIN results)

\* the comparison with >= for >: a later mapping wins a tie
better_or_equal(total, best) == total >= best

\* main: if total_dockq > best_dockq
better(total, best) == total > best

SearchInit ==
    /\ pc = "group"
    /\ native_contacts \in [NativePairs -> NatTotals]
    /\ gi = 1
    /\ native_chain_clusters = [chain \in {native_chains[i] : i \in 1..Len(native_chains)} |-> <<>>]
    /\ all_mappings = <<>>
    /\ mi = 0
    /\ chain_map = None
    /\ result_this_mapping = None
    /\ best_dockq = -1
    /\ best_result = None
    /\ cache = <<>>
    /\ evaluated = <<>>
    /\ AlignIdle
    /\ FormulaIdle
    /\ DockQIdle
    /\ CacheIdle
    /\ NumberingIdle
    /\ InterfaceIdle
    /\ AtomsIdle

\* group_model_chains: one pass of its loop over alignment_targets
GroupStep ==
    /\ pc = "group"
    /\ gi <= Len(alignment_targets)
    /\ LET model_chain == alignment_targets[gi][1]
           native_chain == alignment_targets[gi][2]
       IN  \E member \in {cluster_member(alignment) : alignment \in AlignerOutputs} :
              native_chain_clusters' =
                 IF member
                   THEN [native_chain_clusters EXCEPT
                           ![native_chain] = Append(@, model_chain)]
                   ELSE native_chain_clusters
    /\ gi' = gi + 1
    /\ UNCHANGED <<pc, native_contacts, all_mappings, mi, chain_map, result_this_mapping,
                   best_dockq, best_result, cache, evaluated, nonSearchVars>>

\* main: all_mappings, product and filter
Enumerate ==
    /\ pc = "group"
    /\ gi > Len(alignment_targets)
    /\ all_mappings' = enumerate_mappings(native_chain_clusters)
    /\ mi' = 1
    /\ pc' = "loop"
    /\ UNCHANGED <<native_contacts, gi, native_chain_clusters, chain_map,
                   result_this_mapping, best_dockq, best_result, cache, evaluated,
                   nonSearchVars>>

\* main: chain_map = {native_chain: mapping[i] for i, native_chain in
\* enumerate(native_chains)}; mapping[i] raises IndexError past the tuple
BuildChainMap ==
    /\ pc = "loop"
    /\ mi <= Len(all_mappings)
    /\ LET mapping == all_mappings[mi]
       IN  IF Len(mapping) < Len(native_chains)
             THEN /\ pc' = "crashed"
                  /\ UNCHANGED chain_map
             ELSE /\ chain_map' = [chain \in {native_chains[i] : i \in 1..Len(native_chains)} |->
                                     mapping[CHOOSE i \in 1..Len(native_chains) :
                                                native_chains[i] = chain]]
                  /\ pc' = "run"
    /\ UNCHANGED <<native_contacts, gi, native_chain_clusters, all_mappings, mi,
                   result_this_mapping, best_dockq, best_result, cache, evaluated,
                   nonSearchVars>>

\* main: result_this_mapping = run_on_all_native_interfaces(...)
RunOnAllNativeInterfaces ==
    /\ pc = "run"
    /\ \E fresh \in [NativePairs -> 1..MaxDockQ] :
          /\ result_this_mapping' = results_of(cache, chain_map, fresh)
          /\ cache' = cache_after(cache, chain_map, fresh)
    /\ pc' = "compare"
    /\ UNCHANGED <<native_contacts, gi, native_chain_clusters, all_mappings, mi,
                   chain_map, best_dockq, best_result, evaluated, nonSearchVars>>

\* main: total_dockq and the update of the best mapping
Compare ==
    /\ pc = "compare"
    /\ LET total_dockq == total_dockq_of(result_this_mapping)
       IN  /\ IF better(total_dockq, best_dockq)
                THEN /\ best_dockq' = total_dockq
                     /\ best_result' = result_this_mapping
                ELSE UNCHANGED <<best_dockq, best_result>>
           /\ evaluated' = Append(evaluated,
                                  [mapping |-> all_mappings[mi], chain_map |-> chain_map,
                                   result |-> result_this_mapping, total |-> total_dockq])
    /\ mi' = mi + 1
    /\ pc' = "loop"
    /\ UNCHANGED <<native_contacts, gi, native_chain_clusters, all_mappings,
                   chain_map, result_this_mapping, cache, nonSearchVars>>

\* main: the loop is over; info["best_dockq"], info["best_result"]
Finish ==
    /\ pc = "loop"
    /\ mi > Len(all_mappings)
    /\ pc' = "done"
    /\ UNCHANGED <<native_contacts, gi, native_chain_clusters, all_mappings, mi,
                   chain_map, result_this_mapping, best_dockq, best_result, cache,
                   evaluated, nonSearchVars>>

Next == GroupStep \/ Enumerate \/ BuildChainMap \/ RunOnAllNativeInterfaces \/ Compare \/ Finish

Spec == SearchInit /\ [][Next]_vars

\* ------------------------------------------------------------------------
\* SpecFormula: dockq_formula, evaluated on two argument triples
\* ------------------------------------------------------------------------

\* Fnat is k/n for n up to MaxFnatDen native contacts
MaxFnatDen == 2

\* iRMS runs over 0, 0.75, ... (steps of 1.5/2) and LRMS over 0, 4.25, ...
\* (steps of 8.5/2), MaxRmsSteps steps each
MaxRmsSteps == 3

FnatGrid == {Rat(c[1], c[2]) : c \in {c \in (0..MaxFnatDen) \X (1..MaxFnatDen) : c[1] <= c[2]}}
IrmsGrid == {Rat(3 * a, 4) : a \in 0..MaxRmsSteps}
LrmsGrid == {Rat(17 * b, 4) : b \in 0..MaxRmsSteps}

FormulaArgs == [fnat : FnatGrid, irms : IrmsGrid, Lrms : LrmsGrid]

FormulaInit ==
    /\ f_done = {}
    /\ f_args \in [{1, 2} -> FormulaArgs]
    /\ f_dockq = <<>>
    /\ AlignIdle
    /\ SearchIdle
    /\ DockQIdle
    /\ CacheIdle
    /\ NumberingIdle
    /\ InterfaceIdle
    /\ AtomsIdle

\* calc_DockQ: info["DockQ"] = dockq_formula(fnat, irms, Lrms)
FormulaEval ==
    /\ \E e \in DOMAIN f_args \ f_done :
          /\ f_dockq' = [x \in f_done \cup {e} |->
                           IF x = e
                             THEN dockq_formula(f_args[e].fnat, f_args[e].irms, f_args[e].Lrms)
                             ELSE f_dockq[x]]
          /\ f_done' = f_done \cup {e}
    /\ UNCHANGED <<f_args, nonFormulaVars>>

FormulaNext == FormulaEval

SpecFormula == FormulaInit /\ [][FormulaNext]_vars

MaxRes == 2

\* squared distances (in square Angstrom) a residue pair can have: below
\* both contact thresholds, between them, and far apart
DistSq == {4, 20, 150}

\* the threshold compared with the squared distances without being squared
fnat_threshold_sq_unsquared(capri_peptide) == IF capri_peptide THEN 4 ELSE 5

\* calc_DockQ: fnat_threshold = 4.0 if capri_peptide else 5.0, squared
fnat_threshold_sq(capri_peptide) == IF capri_peptide THEN 4 * 4 ELSE 5 * 5

\* get_residue_distances on residues of known pairwise distance: the matrix
\* of the residue lists res1 and res2
get_residue_distances(dist, res1, res2) ==
    [i \in 1..Len(res1), j \in 1..Len(res2) |-> dist[res1[i], res2[j]]]

\* a chain as the list of its residues
whole_chain(n) == [i \in 1..n |-> i]

\* np.nonzero(np.asarray(distances) < threshold)[0].shape[0]
count_below(distances, threshold_sq) ==
    Cardinality({p \in DOMAIN distances : distances[p] < threshold_sq})

\* nat_total counted with the threshold left unsquared
nat_total_of_unsquared(capri_peptide, ref_dist, sizes) ==
    count_below(get_residue_distances(ref_dist, whole_chain(sizes[1]), whole_chain(sizes[2])),
                fnat_threshold_sq_unsquared(capri_peptide))

\* calc_DockQ: nat_total, on the untouched native chains
nat_total_of(capri_peptide, ref_dist, sizes) ==
    count_below(get_residue_distances(ref_dist, whole_chain(sizes[1]), whole_chain(sizes[2])),
                fnat_threshold_sq(capri_peptide))

\* get_fnat_stats(sample_res_distances, ref_res_distances, threshold)
get_fnat_stats(sample_distances, ref_distances, threshold_sq) ==
    [nat_correct  |-> Cardinality({p \in DOMAIN sample_distances :
                                     /\ sample_distances[p] < threshold_sq
                                     /\ ref_distances[p] < threshold_sq}),
     nonnat_count |-> Cardinality({p \in DOMAIN sample_distances :
                                     /\ sample_distances[p] < threshold_sq
                                     /\ ~ (ref_distances[p] < threshold_sq)}),
     model_total  |-> count_below(sample_distances, threshold_sq)]

\* calc_DockQ: total and count / total or 0
ratio_or_zero(total, count) ==
    IF total = 0 THEN RZero
    ELSE IF count = 0 THEN RZero
    ELSE Rat(count, total)

\* f1_formula
f1_formula(tp, fp, p) == Rat(2 * tp, tp + fp + p)

\* calc_DockQ: the group of receptor_chains, of ligand_chains, and the classes
receptor_group(size1, size2) == IF size1 > size2 THEN 1 ELSE 2
ligand_group(size1, size2) == IF size1 <= size2 THEN 2 ELSE 1
classes(size1, size2) ==
    IF size1 > size2 THEN <<"receptor", "ligand">> ELSE <<"ligand", "receptor">>

\* the residues a track holds
track_residues(track) == Cardinality({i \in 1..Len(track) : track[i] # "-"})

\* what get_aligned_residues returns for the alignments of a native chain of
\* n residues
AlignedFor(n) ==
    {get_aligned_residues(a) :
        a \in {a \in AlignerOutputs : /\ track_residues(a.seqB) = n
                                      /\ track_residues(a.seqA) <= MaxRes}}

\* the aligned residue lists of a group
group_chains(aligned, g) ==
    IF g = 1 THEN [group |-> 1, ref |-> aligned.ref1, sample |-> aligned.sample1]
    ELSE [group |-> 2, ref |-> aligned.ref2, sample |-> aligned.sample2]

DockQInit ==
    /\ d_pc = "start"
    /\ d_capri \in BOOLEAN
    /\ d_ref_size \in (1..MaxRes) \X (1..MaxRes)
    /\ d_ref_dist \in [(1..d_ref_size[1]) \X (1..d_ref_size[2]) -> DistSq]
    /\ d_nat_total = 0
    /\ d_aligned = None
    /\ d_sample_res_distances = <<>>
    /\ d_ref_res_distances = <<>>
    /\ d_stats = None
    /\ d_roles = None
    /\ d_info = None
    /\ AlignIdle
    /\ SearchIdle
    /\ FormulaIdle
    /\ CacheIdle
    /\ NumberingIdle
    /\ InterfaceIdle
    /\ AtomsIdle

\* calc_DockQ: nat_total, and the return of None without native contact
DqNatTotal ==
    /\ d_pc = "start"
    /\ d_nat_total' = nat_total_of(d_capri, d_ref_dist, d_ref_size)
    /\ d_pc' = IF d_nat_total' = 0 THEN "returned" ELSE "align"
    /\ UNCHANGED <<d_capri, d_ref_size, d_ref_dist, d_aligned, d_sample_res_distances,
                   d_ref_res_distances, d_stats, d_roles, d_info, nonDockQVars>>

\* calc_DockQ: get_aligned_residues on the alignment of each group
DqAlign ==
    /\ d_pc = "align"
    /\ \E r1 \in AlignedFor(d_ref_size[1]), r2 \in AlignedFor(d_ref_size[2]) :
          d_aligned' = [sample1 |-> r1[1], ref1 |-> r1[2],
                        sample2 |-> r2[1], ref2 |-> r2[2]]
    /\ d_pc' = "distances"
    /\ UNCHANGED <<d_capri, d_ref_size, d_ref_dist, d_nat_total, d_sample_res_distances,
                   d_ref_res_distances, d_stats, d_roles, d_info, nonDockQVars>>

\* calc_DockQ: the distances of the aligned residues, sample and native, and
\* the assertion that the two matrices have one shape
DqDistances ==
    /\ d_pc = "distances"
    /\ \E sample \in [(1..Len(d_aligned.sample1)) \X (1..Len(d_aligned.sample2)) -> DistSq] :
          d_sample_res_distances' = sample
    /\ d_ref_res_distances' = get_residue_distances(d_ref_dist, d_aligned.ref1, d_aligned.ref2)
    /\ d_pc' = IF DOMAIN d_sample_res_distances' = DOMAIN d_ref_res_distances'
                 THEN "stats" ELSE "crashed"
    /\ UNCHANGED <<d_capri, d_ref_size, d_ref_dist, d_nat_total, d_aligned,
                   d_stats, d_roles, d_info, nonDockQVars>>

\* calc_DockQ: get_fnat_stats, fnat and fnonnat
DqStats ==
    /\ d_pc = "stats"
    /\ LET stats == get_fnat_stats(d_sample_res_distances, d_ref_res_distances,
                                   fnat_threshold_sq(d_capri))
       IN  d_stats' = [nat_correct |-> stats.nat_correct,
                       nonnat_count |-> stats.nonnat_count,
                       model_total |-> stats.model_total,
                       fnat |-> ratio_or_zero(d_nat_total, stats.nat_correct),
                       fnonnat |-> ratio_or_zero(stats.model_total, stats.nonnat_count)]
    /\ d_pc' = "classify"
    /\ UNCHANGED <<d_capri, d_ref_size, d_ref_dist, d_nat_total, d_aligned,
                   d_sample_res_distances, d_ref_res_distances, d_roles, d_info,
                   nonDockQVars>>

\* calc_DockQ: which chains are the receptor and the ligand
DqClassify ==
    /\ d_pc = "classify"
    /\ d_roles' = [receptor |-> group_chains(d_aligned, receptor_group(d_ref_size[1], d_ref_size[2])),
                   ligand |-> group_chains(d_aligned, ligand_group(d_ref_size[1], d_ref_size[2])),
                   class1 |-> classes(d_ref_size[1], d_ref_size[2])[1],
                   class2 |-> classes(d_ref_size[1], d_ref_size[2])[2]]
    /\ d_pc' = "info"
    /\ UNCHANGED <<d_capri, d_ref_size, d_ref_dist, d_nat_total, d_aligned,
                   d_sample_res_distances, d_ref_res_distances, d_stats, d_info,
                   nonDockQVars>>

\* calc_DockQ: the info record; irms and Lrms are what the superimposers
\* measured on the interface and on the ligand
DqInfo ==
    /\ d_pc = "info"
    /\ \E irms \in IrmsGrid, Lrms \in LrmsGrid :
          d_info' = [F1 |-> f1_formula(d_stats.nat_correct, d_stats.nonnat_count, d_nat_total),
                     DockQ |-> dockq_formula(d_stats.fnat, irms, Lrms),
                     irms |-> irms, Lrms |-> Lrms,
                     fnat |-> d_stats.fnat,
                     nat_correct |-> d_stats.nat_correct,
                     nat_total |-> d_nat_total,
                     fnonnat |-> d_stats.fnonnat,
                     nonnat_count |-> d_stats.nonnat_count,
                     model_total |-> d_stats.model_total,
                     len1 |-> d_ref_size[1], len2 |-> d_ref_size[2],
                     class1 |-> d_roles.class1, class2 |-> d_roles.class2]
    /\ d_pc' = "returned"
    /\ UNCHANGED <<d_capri, d_ref_size, d_ref_dist, d_nat_total, d_aligned,
                   d_sample_res_distances, d_ref_res_distances, d_stats, d_roles,
                   nonDockQVars>>

DockQNext == DqNatTotal \/ DqAlign \/ DqDistances \/ DqStats \/ DqClassify \/ DqInfo

SpecDockQ == DockQInit /\ [][DockQNext]_vars

\* ------------------------------------------------------------------------
\* SpecCache: the lru_cache of run_on_chains over the search of main() on a
\* homo-oligomer (every model chain is in the cluster of every native chain).
\* Spec above runs on so few chains that the cache never fills; here the
\* number of keys passes the size of the cache.
\* ------------------------------------------------------------------------

\* most chains of the homo-oligomer
MaxChains == 5

\* functools.lru_cache used bare: maxsize is its default
maxsize == 128

\* the chain ids of a structure of n chains
oligomer_native(n) == SubSeq(<<"A", "B", "C", "D", "E", "F">>, 1, n)
oligomer_model(n) == SubSeq(<<"U", "V", "W", "X", "Y", "Z">>, 1, n)

\* main: all_mappings when every cluster holds every model chain
oligomer_mappings(n) ==
    SelectSeq(product([i \in 1..n |-> oligomer_model(n)]), no_chain_twice)

\* run_on_all_native_interfaces: the key of the call for a chain pair:
\* ((model chain, model chain), (native chain, native chain)); the flags are
\* the same in every call of a run
call_key(n, mapping, chain_pair_index) ==
    LET natives == oligomer_native(n)
        cmap == [c \in {natives[i] : i \in 1..n} |->
                    mapping[CHOOSE i \in 1..n : natives[i] = c]]
        chain_pair == combinations2(natives)[chain_pair_index]
    IN  <<model_pair(cmap, chain_pair), chain_pair>>

\* lru_cache on a hit: the key becomes the most recently used
lru_hit(keys, key) == SelectSeq(keys, LAMBDA k : k # key) \o <<key>>

\* lru_cache on a miss: the result is stored; a full cache drops its least
\* recently used key
lru_miss(keys, key) ==
    IF Len(keys) >= maxsize THEN Tail(keys) \o <<key>> ELSE keys \o <<key>>

\* the positions of the loops after a call
after_call(n, mappings, m, p) ==
    IF p < Len(combinations2(oligomer_native(n))) THEN <<m, p + 1>>
    ELSE <<m + 1, 1>>

CacheInit ==
    /\ k_pc = "loop"
    /\ k_chains \in 2..MaxChains
    /\ k_mappings = oligomer_mappings(k_chains)
    /\ k_mi = 1
    /\ k_pi = 1
    /\ k_cache = <<>>
    /\ k_calls = <<>>
    /\ AlignIdle
    /\ SearchIdle
    /\ FormulaIdle
    /\ DockQIdle
    /\ NumberingIdle
    /\ InterfaceIdle
    /\ AtomsIdle

\* run_on_chains: the key is in the cache, the stored info is returned
CacheHit ==
    /\ k_pc = "loop"
    /\ k_mi <= Len(k_mappings)
    /\ LET key == call_key(k_chains, k_mappings[k_mi], k_pi)
           pos == after_call(k_chains, k_mappings, k_mi, k_pi)
       IN  /\ In(key, k_cache)
           /\ k_cache' = lru_hit(k_cache, key)
           /\ k_mi' = pos[1]
           /\ k_pi' = pos[2]
    /\ UNCHANGED <<k_pc, k_chains, k_mappings, k_calls, nonCacheVars>>

\* run_on_chains: the key is not in the cache, the body runs and its result
\* is stored
CacheMiss ==
    /\ k_pc = "loop"
    /\ k_mi <= Len(k_mappings)
    /\ LET key == call_key(k_chains, k_mappings[k_mi], k_pi)
           pos == after_call(k_chains, k_mappings, k_mi, k_pi)
       IN  /\ ~ In(key, k_cache)
           /\ k_cache' = lru_miss(k_cache, key)
           /\ k_calls' = [k \in DOMAIN k_calls \cup {key} |->
                            IF k = key
                              THEN (IF k \in DOMAIN k_calls THEN k_calls[k] + 1 ELSE 1)
                              ELSE k_calls[k]]
           /\ k_mi' = pos[1]
           /\ k_pi' = pos[2]
    /\ UNCHANGED <<k_pc, k_chains, k_mappings, nonCacheVars>>

\* main: the loop over all_mappings is over
CacheDone ==
    /\ k_pc = "loop"
    /\ k_mi > Len(k_mappings)
    /\ k_pc' = "done"
    /\ UNCHANGED <<k_chains, k_mappings, k_mi, k_pi, k_cache, k_calls, nonCacheVars>>

CacheNext == CacheHit \/ CacheMiss \/ CacheDone

SpecCache == CacheInit /\ [][CacheNext]_vars

\* ------------------------------------------------------------------------
\* SpecNumbering: align_chains with use_numbering, up to the two character
\* sequences handed to the aligner. A character is given by its code point.
\* ------------------------------------------------------------------------

\* most residues of a chain whose numbers are encoded
MaxNumLen == 2

\* residue numbers (residue.id[1]) a structure file can hold: below and at
\* the least offset, negative, zero, positive
ResNumbers == {-47, -46, -45, -2, 0, 1, 2}

\* align_chains: the least offset, max(45, ...)
min_offset == 45

\* ord("-"), the character reserved for gaps
ord_gap == 45

\* the largest code point chr() accepts
max_code_point == 1114111

\* min(numbers)
min_of(numbers) ==
    CHOOSE m \in {numbers[i] : i \in 1..Len(numbers)} :
        \A i \in 1..Len(numbers) : m <= numbers[i]

max_int(a, b) == IF a >= b THEN a ELSE b

\* align_chains: min_resn = max(45, -min(model_numbering + native_numbering))
min_resn_of(model_numbering, native_numbering) ==
    max_int(min_offset, -min_of(model_numbering \o native_numbering))

\* chr() takes the code points of range(0x110000), and raises on any other
chr_accepts(i) == 0 <= i /\ i <= max_code_point

\* chr(): the character of a code point
chr(i) == [ord |-> i]

\* align_chains: [chr(resn + min_resn) for resn in numbering]
encode(numbering, min_resn) == [i \in 1..Len(numbering) |-> chr(numbering[i] + min_resn)]

NumberingInit ==
    /\ n_pc = "start"
    /\ n_model_numbering \in SeqsOf(ResNumbers, 1, MaxNumLen)
    /\ n_native_numbering \in SeqsOf(ResNumbers, 1, MaxNumLen)
    /\ n_min_resn = 0
    /\ n_model_sequence = <<>>
    /\ n_native_sequence = <<>>
    /\ AlignIdle
    /\ SearchIdle
    /\ FormulaIdle
    /\ DockQIdle
    /\ CacheIdle
    /\ InterfaceIdle
    /\ AtomsIdle

\* align_chains: the branch of use_numbering
EncodeNumbering ==
    /\ n_pc = "start"
    /\ n_min_resn' = min_resn_of(n_model_numbering, n_native_numbering)
    /\ IF \A resn \in {n_model_numbering[i] : i \in 1..Len(n_model_numbering)}
                        \cup {n_native_numbering[i] : i \in 1..Len(n_native_numbering)} :
              chr_accepts(resn + n_min_resn')
         THEN /\ n_model_sequence' = encode(n_model_numbering, n_min_resn')
              /\ n_native_sequence' = encode(n_native_numbering, n_min_resn')
              /\ n_pc' = "encoded"
         ELSE /\ UNCHANGED <<n_model_sequence, n_native_sequence>>
              /\ n_pc' = "crashed"
    /\ UNCHANGED <<n_model_numbering, n_native_numbering, nonNumberingVars>>

NumberingNext == EncodeNumbering

SpecNumbering == NumberingInit /\ [][NumberingNext]_vars

\* ------------------------------------------------------------------------
\* SpecInterface: calc_DockQ from its start to the residues whose atoms
\* get_interface_atoms collects for the interface fit.
\* ------------------------------------------------------------------------

\* squared CB distances a residue pair can have: below and above the
\* interface threshold of the peptide mode
CbDistSq == {36, 150}

\* calc_DockQ: interface_threshold = 8.0 if capri_peptide else 10.0, squared
interface_threshold_sq(capri_peptide) == IF capri_peptide THEN 8 * 8 ELSE 10 * 10

\* get_interacting_pairs: np.nonzero(distances < threshold), the row and
\* the column indices of the entries below the threshold
get_interacting_pairs(distances, threshold_sq) ==
    LET below == {p \in DOMAIN distances : distances[p] < threshold_sq}
    IN  <<{p[1] : p \in below}, {p[2] : p \in below}>>

\* get_interface_atoms: residues[i] on a list; an index past its end raises
indexable(residues, indices) == \A i \in indices : i <= Len(residues)

\* get_interface_atoms: the (native, model) residues taken at the indices
residues_at(ref_residues, mod_residues, indices) ==
    {<<i, ref_residues[i], mod_residues[i]>> : i \in indices}

InterfaceInit ==
    /\ i_pc = "start"
    /\ i_capri \in BOOLEAN
    /\ i_ref_size \in (1..MaxRes) \X (1..MaxRes)
    /\ i_ref_dist \in [(1..i_ref_size[1]) \X (1..i_ref_size[2]) -> DistSq]
    /\ IF i_capri
         THEN i_cb_dist \in [(1..i_ref_size[1]) \X (1..i_ref_size[2]) -> CbDistSq]
         ELSE i_cb_dist = <<>>
    /\ i_aligned = None
    /\ i_matrix_res = None
    /\ i_interacting_pairs = None
    /\ i_interface = None
    /\ AlignIdle
    /\ SearchIdle
    /\ FormulaIdle
    /\ DockQIdle
    /\ CacheIdle
    /\ NumberingIdle
    /\ AtomsIdle

\* calc_DockQ: the return of None without native contact
IfNatTotal ==
    /\ i_pc = "start"
    /\ i_pc' = IF nat_total_of(i_capri, i_ref_dist, i_ref_size) = 0 THEN "returned" ELSE "align"
    /\ UNCHANGED <<i_capri, i_ref_size, i_ref_dist, i_cb_dist, i_aligned, i_matrix_res,
                   i_interacting_pairs, i_interface, nonInterfaceVars>>

\* calc_DockQ: get_aligned_residues on the alignment of each group
IfAlign ==
    /\ i_pc = "align"
    /\ \E r1 \in AlignedFor(i_ref_size[1]), r2 \in AlignedFor(i_ref_size[2]) :
          i_aligned' = [sample1 |-> r1[1], ref1 |-> r1[2],
                        sample2 |-> r2[1], ref2 |-> r2[2]]
    /\ i_pc' = "pairs"
    /\ UNCHANGED <<i_capri, i_ref_size, i_ref_dist, i_cb_dist, i_matrix_res,
                   i_interacting_pairs, i_interface, nonInterfaceVars>>

\* calc_DockQ: ref_res_distances, of the aligned native residues, or in
\* peptide mode the CB distances of ref_chains[0] and ref_chains[1]; then
\* get_interacting_pairs
IfInteractingPairs ==
    /\ i_pc = "pairs"
    /\ i_matrix_res' = IF i_capri
                         THEN <<whole_chain(i_ref_size[1]), whole_chain(i_ref_size[2])>>
                         ELSE <<i_aligned.ref1, i_aligned.ref2>>
    /\ LET ref_res_distances ==
               IF i_capri
                 THEN get_residue_distances(i_cb_dist, i_matrix_res'[1], i_matrix_res'[2])
                 ELSE get_residue_distances(i_ref_dist, i_matrix_res'[1], i_matrix_res'[2])
       IN  i_interacting_pairs' =
               get_interacting_pairs(ref_res_distances, interface_threshold_sq(i_capri))
    /\ i_pc' = "atoms"
    /\ UNCHANGED <<i_capri, i_ref_size, i_ref_dist, i_cb_dist, i_aligned, i_interface,
                   nonInterfaceVars>>

\* get_interface_atoms on the aligned residue lists: the residues of each
\* group at the indices of interacting_pairs
IfInterfaceAtoms ==
    /\ i_pc = "atoms"
    /\ IF /\ indexable(i_aligned.ref1, i_interacting_pairs[1])
          /\ indexable(i_aligned.ref2, i_interacting_pairs[2])
         THEN /\ i_interface' =
                    <<residues_at(i_aligned.ref1, i_aligned.sample1, i_interacting_pairs[1]),
                      residues_at(i_aligned.ref2, i_aligned.sample2, i_interacting_pairs[2])>>
              /\ i_pc' = "returned"
         ELSE /\ i_interface' = None
              /\ i_pc' = "crashed"
    /\ UNCHANGED <<i_capri, i_ref_size, i_ref_dist, i_cb_dist, i_aligned, i_matrix_res,
                   i_interacting_pairs, nonInterfaceVars>>

InterfaceNext == IfNatTotal \/ IfAlign \/ IfInteractingPairs \/ IfInterfaceAtoms

SpecInterface == InterfaceInit /\ [][InterfaceNext]_vars

\* ------------------------------------------------------------------------
\* SpecAtoms: the atom lists of calc_DockQ: get_interface_atoms for the
\* interface fit, get_atoms_per_residue for the receptor fit and the ligand
\* RMSD. A residue is the list of its atom ids in the order of the file; an
\* atom is named by its group, the position of its residue in the aligned
\* list, and its id.
\* ------------------------------------------------------------------------

\* most aligned residues of a group
MaxAtomRes == 2

\* the atoms of a residue: the backbone, the backbone in another order, the
\* backbone without its O
ResidueAtoms == {<<"N", "CA", "C", "O">>, <<"CA", "N", "C", "O">>, <<"N", "CA", "C">>}

\* calc_DockQ: atom_for_sup
atom_for_sup(use_CA_only) == IF use_CA_only THEN {"CA"} ELSE {"CA", "C", "N", "O"}

\* the ids of a residue's atoms
atom_ids(residue) == {residue[a] : a \in 1..Len(residue)}

\* the members of a set of indices in rising order
RECURSIVE in_order(_)
in_order(indices) ==
    IF indices = {} THEN <<>>
    ELSE LET least == CHOOSE i \in indices : \A j \in indices : i <= j
         IN  <<least>> \o in_order(indices \ {least})

\* the atoms of the residue at position i of a group, of the ids kept
atoms_kept(group, i, residue, kept) ==
    LET ids == SelectSeq(residue, LAMBDA id : id \in kept)
    IN  [a \in 1..Len(ids) |-> [group |-> group, res |-> i, id |-> ids[a]]]

\* get_atoms_per_residue(chain, atom_types)
get_atoms_per_residue(group, chain, atom_types) ==
    Flatten([i \in 1..Len(chain) |-> atoms_kept(group, i, chain[i], atom_types)])

\* get_interface_atoms: one of its two loops; the atoms of one structure at
\* the interface residues of a group, those whose id is in atom_types and
\* among the ids of the other structure's version of the residue
interface_atoms_of(group, own, other, indices, atom_types) ==
    LET order == in_order(indices)
    IN  Flatten([k \in 1..Len(order) |->
                   atoms_kept(group, order[k], own[order[k]],
                              atom_types \cap atom_ids(other[order[k]]))])

\* get_interface_atoms(interacting_pairs, model_chains, ref_chains, atom_types)
get_interface_atoms(interacting_pairs, mod_chains, ref_chains, atom_types) ==
    [mod |-> interface_atoms_of(1, mod_chains[1], ref_chains[1], interacting_pairs[1], atom_types)
               \o interface_atoms_of(2, mod_chains[2], ref_chains[2], interacting_pairs[2], atom_types),
     ref |-> interface_atoms_of(1, ref_chains[1], mod_chains[1], interacting_pairs[1], atom_types)
               \o interface_atoms_of(2, ref_chains[2], mod_chains[2], interacting_pairs[2], atom_types)]

\* the aligned residue lists of the two groups, of one structure
GroupResidues == SeqsOf(ResidueAtoms, 1, MaxAtomRes) \X SeqsOf(ResidueAtoms, 1, MaxAtomRes)

AtomsInit ==
    /\ t_pc = "start"
    /\ t_use_CA_only \in BOOLEAN
    /\ t_ref_atoms \in GroupResidues
    /\ t_mod_atoms \in {m \in GroupResidues :
                          /\ Len(m[1]) = Len(t_ref_atoms[1])
                          /\ Len(m[2]) = Len(t_ref_atoms[2])}
    /\ t_interface = None
    /\ t_chain_atoms = None
    /\ AlignIdle
    /\ SearchIdle
    /\ FormulaIdle
    /\ DockQIdle
    /\ CacheIdle
    /\ NumberingIdle
    /\ InterfaceIdle

\* calc_DockQ: get_interface_atoms at the indices of interacting_pairs
\* (the rows and the columns of the distances below the threshold)
AtInterfaceAtoms ==
    /\ t_pc = "start"
    /\ \E rows \in (SUBSET (1..Len(t_ref_atoms[1]))) \ {{}},
          cols \in (SUBSET (1..Len(t_ref_atoms[2]))) \ {{}} :
          t_interface' = get_interface_atoms(<<rows, cols>>, t_mod_atoms, t_ref_atoms,
                                             atom_for_sup(t_use_CA_only))
    /\ t_pc' = "interface"
    /\ UNCHANGED <<t_use_CA_only, t_ref_atoms, t_mod_atoms, t_chain_atoms, nonAtomsVars>>

\* calc_DockQ: get_atoms_per_residue on the native and the model list of a
\* group, for the receptor and for the ligand
AtChainAtoms ==
    /\ t_pc = "interface"
    /\ t_chain_atoms' =
          [g \in {1, 2} |->
             [native |-> get_atoms_per_residue(g, t_ref_atoms[g], atom_for_sup(t_use_CA_only)),
              sample |-> get_atoms_per_residue(g, t_mod_atoms[g], atom_for_sup(t_use_CA_only))]]
    /\ t_pc' = "done"
    /\ UNCHANGED <<t_use_CA_only, t_ref_atoms, t_mod_atoms, t_interface, nonAtomsVars>>

AtomsNext == AtInterfaceAtoms \/ AtChainAtoms

SpecAtoms == AtomsInit /\ [][AtomsNext]_vars

\* ------------------------------------------------------------------------
\* Properties of the chain-mapping search (checked under Spec)
\* ------------------------------------------------------------------------

NativeSet == {native_chains[i] : i \in 1..Len(native_chains)}
ModelSet == {model_chains[i] : i \in 1..Len(model_chains)}

\* the enumeration of the mappings has happened
Enumerated == pc \in {"loop", "run", "compare", "done", "crashed"}

\* a tuple of the Cartesian product, over the native chains, of their clusters
InClusterProduct(mapping) ==
    /\ Len(mapping) = Len(native_chains)
    /\ \A i \in 1..Len(native_chains) :
          In(mapping[i], native_chain_clusters[native_chains[i]])

\* no two native chains share a model chain
OneToOne(cmap) == \A a, b \in DOMAIN cmap : a # b => cmap[a] # cmap[b]

\* the chain maps of the Cartesian product without a model chain used twice
ValidChainMaps ==
    {cmap \in [NativeSet -> ModelSet] :
        /\ \A chain \in NativeSet : In(cmap[chain], native_chain_clusters[chain])
        /\ OneToOne(cmap)}

\* C1: every candidate mapping of the search is a tuple of the Cartesian
\* product over the native chains of their clusters (one model chain of its
\* own cluster for each native chain), and so is every chain map evaluated,
\* whatever the clusters hold, empty clusters included.
C1_CandidatesInClusterProduct ==
    Enumerated =>
       /\ \A k \in 1..Len(all_mappings) : InClusterProduct(all_mappings[k])
       /\ \A k \in 1..Len(evaluated) :
             \A chain \in NativeSet :
                In(evaluated[k].chain_map[chain], native_chain_clusters[chain])

\* C2: every chain map handed to run_on_all_native_interfaces is injective,
\* and no candidate that uses a model chain twice is ever scored.
C2_ChainMapsInjective ==
    /\ pc \in {"run", "compare"} => OneToOne(chain_map)
    /\ \A k \in 1..Len(evaluated) :
          /\ OneToOne(evaluated[k].chain_map)
          /\ \A i, j \in 1..Len(evaluated[k].mapping) :
                i # j => evaluated[k].mapping[i] # evaluated[k].mapping[j]

\* C2 witness: a chain map is being scored while the product of the clusters
\* held a tuple with a model chain used twice, which the filter discarded.
C2_Witness ==
    /\ pc = "run"
    /\ \E i, j \in 1..Len(native_chains) :
          /\ i # j
          /\ \E m \in ModelSet :
                /\ In(m, native_chain_clusters[native_chains[i]])
                /\ In(m, native_chain_clusters[native_chains[j]])

\* the position of the first evaluated mapping whose total is the greatest
FirstBest ==
    CHOOSE k \in 1..Len(evaluated) :
        /\ \A j \in 1..Len(evaluated) : evaluated[j].total <= evaluated[k].total
        /\ \A j \in 1..(k - 1) : evaluated[j].total < evaluated[k].total

\* the sum of the DockQ values of a result map, pair by pair in the order of
\* itertools.combinations
RECURSIVE SumOver(_, _)
SumOver(results, pairs) ==
    IF pairs = <<>> THEN 0
    ELSE (IF Head(pairs) \in DOMAIN results THEN results[Head(pairs)].DockQ ELSE 0)
         + SumOver(results, Tail(pairs))

\* C3: when the loop over the candidate mappings is over (and has evaluated
\* one at least), best_dockq is the greatest total of the DockQ values of an
\* evaluated mapping, and best_result is the result map of the first mapping,
\* in enumeration order, that reaches it.
C3_BestIsFirstMaximum ==
    (pc = "done" /\ evaluated # <<>>) =>
       /\ best_dockq = evaluated[FirstBest].total
       /\ best_result = evaluated[FirstBest].result
       /\ \A k \in 1..Len(evaluated) :
             /\ evaluated[k].total = SumOver(evaluated[k].result, combinations2(native_chains))
             /\ evaluated[k].total <= best_dockq
       /\ Len(evaluated) = Len(all_mappings)

\* C3 witness: the search is over, two mappings with different result maps
\* tie at the greatest total and the earlier one is kept; another mapping
\* scored less.
C3_Witness ==
    /\ pc = "done"
    /\ \E j, k \in 1..Len(evaluated) :
          /\ j < k
          /\ evaluated[j].total = best_dockq
          /\ evaluated[k].total = best_dockq
          /\ evaluated[j].result # evaluated[k].result
          /\ best_result = evaluated[j].result
    /\ \E k \in 1..Len(evaluated) : evaluated[k].total < best_dockq

\* C4: when no injective mapping exists in the Cartesian product of the
\* clusters, the search ends normally with no winning mapping (best_result is
\* None), does not report a best score of 0 and does not fail.
C4_NoCandidateEmptyResult ==
    (Enumerated /\ ValidChainMaps = {}) =>
       /\ pc # "crashed"
       /\ pc = "done" => (best_result = None /\ best_dockq # 0)

\* C5: for every chain map, a native chain pair without native contacts
\* (nat_total = 0) has no entry in the result map and adds nothing to the
\* total; every pair with native contacts has its one entry, keyed by the
\* native chain pair and made of the model chains the map gives it.
C5_NoContactNoEntry ==
    \A k \in 1..Len(evaluated) :
       LET e == evaluated[k] IN
       /\ DOMAIN e.result = {p \in NativePairs : native_contacts[p] > 0}
       /\ \A p \in DOMAIN e.result :
             /\ e.result[p].nat_total = native_contacts[p]
             /\ e.result[p].chain1 = e.chain_map[p[1]]
             /\ e.result[p].chain2 = e.chain_map[p[2]]
       /\ e.total = SumOver(e.result,
                            SelectSeq(combinations2(native_chains),
                                      LAMBDA p : native_contacts[p] > 0))

\* C5 witness: a mapping was scored on a native structure with one pair of
\* chains in contact and one pair without, and its total is that of the
\* pairs in contact.
C5_Witness ==
    /\ \E p, q \in NativePairs : native_contacts[p] = 0 /\ native_contacts[q] > 0
    /\ \E k \in 1..Len(evaluated) :
          /\ evaluated[k].total > 0
          /\ \E p \in NativePairs : p \notin DOMAIN evaluated[k].result

\* ------------------------------------------------------------------------
\* Properties of the alignment of one chain pair (checked under SpecAlign)
\* ------------------------------------------------------------------------

\* the columns marked "|", and the k-th of them
MatchColumns(alignment) ==
    {i \in 1..Len(alignment.matches) : alignment.matches[i] = "|"}

KthMatchColumn(alignment, k) ==
    CHOOSE c \in MatchColumns(alignment) :
        Cardinality({j \in MatchColumns(alignment) : j <= c}) = k

\* how many residues a track has consumed up to and with column c
ResiduesUpTo(track, c) == Cardinality({i \in 1..c : track[i] # Gap})

\* C6: group_model_chains puts the model chain in the native chain's cluster
\* if and only if the alignment has no mismatch column, no gap in the model
\* track and no gap in the native track.
C6_MemberIffPerfect ==
    a_pc = "grouped" =>
       (a_member <=>
          /\ \A i \in 1..Len(a_alignment.matches) : a_alignment.matches[i] # "."
          /\ \A i \in 1..Len(a_alignment.seqA) : a_alignment.seqA[i] # Gap
          /\ \A i \in 1..Len(a_alignment.seqB) : a_alignment.seqB[i] # Gap)

\* C7: get_aligned_residues returns two lists of equal length, one entry for
\* each column marked "|", in order: the k-th entries are the model residue
\* and the native residue consumed at the k-th such column, each track's
\* pointer counting that track's non-gap symbols only; residues of mismatch
\* and gap columns are in neither list; a chain aligned with itself gives
\* every residue once, in order.
C7_AlignedResiduesAreMatchColumns ==
    a_pc = "done" =>
       LET resA == a_res[1]
           resB == a_res[2]
           n == Cardinality(MatchColumns(a_alignment))
       IN  /\ ResiduesUpTo(a_alignment.seqA, Len(a_alignment.seqA)) = Len(a_model)
           /\ ResiduesUpTo(a_alignment.seqB, Len(a_alignment.seqB)) = Len(a_native)
           /\ Len(resA) = n
           /\ Len(resB) = n
           /\ \A k \in 1..n :
                 LET c == KthMatchColumn(a_alignment, k)
                 IN  /\ resA[k] = ResiduesUpTo(a_alignment.seqA, c)
                     /\ resB[k] = ResiduesUpTo(a_alignment.seqB, c)
                     /\ a_model[resA[k]] = a_alignment.seqA[c]
                     /\ a_native[resB[k]] = a_alignment.seqB[c]
           /\ a_model = a_native =>
                 /\ resA = [k \in 1..Len(a_model) |-> k]
                 /\ resB = [k \in 1..Len(a_native) |-> k]

\* C7 witness: the residues of an alignment were collected in which a gap of
\* the native track and a mismatch come before a column marked "|", so that
\* the two pointers differ at the match.
C7_Witness ==
    /\ a_pc = "done"
    /\ \E i, j, k \in 1..Len(a_alignment.matches) :
          /\ i < k /\ j < k
          /\ a_alignment.seqB[i] = Gap
          /\ a_alignment.matches[j] = "."
          /\ a_alignment.matches[k] = "|"
    /\ Len(a_res[1]) >= 1
    /\ a_res[1] # a_res[2]

\* ------------------------------------------------------------------------
\* Properties of calc_DockQ (checked under SpecDockQ)
\* ------------------------------------------------------------------------

\* the group with more residues, the first one on a tie
LargerGroup == IF d_ref_size[1] >= d_ref_size[2] THEN 1 ELSE 2

\* C8: the group with more residues is the receptor and the other one the
\* ligand, so the two roles go to two different groups; class1 and class2
\* name the roles the groups really play in the receptor fit and the ligand
\* RMSD; with equal residue counts the first group is the receptor and the
\* second the ligand.
C8_LargerGroupIsReceptor ==
    d_roles # None =>
        /\ d_roles.receptor.group # d_roles.ligand.group
        /\ d_roles.receptor.group = LargerGroup
        /\ d_roles.class1 = (IF d_roles.receptor.group = 1 THEN "receptor" ELSE "ligand")
        /\ d_roles.class2 = (IF d_roles.ligand.group = 2 THEN "ligand" ELSE "receptor")

C11_ComputedAtMostOncePerKey ==
    \A key \in DOMAIN k_calls : k_calls[key] <= 1

\* ------------------------------------------------------------------------
\* Properties of the numbering mode (checked under SpecNumbering)
\* ------------------------------------------------------------------------

\* the residue numbers and their characters, of both chains
EncodedPairs ==
    {<<n_model_numbering[i], n_model_sequence[i]>> : i \in 1..Len(n_model_sequence)}
        \cup {<<n_native_numbering[i], n_native_sequence[i]>> : i \in 1..Len(n_native_sequence)}

\* C12: in numbering mode, whatever the residue numbers (zero and negative
\* ones too), two different numbers get two different characters, no code
\* point is negative, and no residue number gets the gap character "-"
\* (code point 45).
C12_EncodingInjectiveAndGapFree ==
    n_pc = "encoded" =>
        /\ \A p, q \in EncodedPairs : p[1] # q[1] => p[2] # q[2]
        /\ \A p \in EncodedPairs : p[2].ord >= 0
        /\ \A p \in EncodedPairs : p[2] # [ord |-> ord_gap]

\* ------------------------------------------------------------------------
\* Properties of the interface residues (checked under SpecInterface)
\* ------------------------------------------------------------------------

\* the indices of a group are indices of its aligned list, and the native
\* residue there is the one the distance was measured on
IndicesDenote(indices, aligned_ref, measured) ==
    \A i \in indices : i <= Len(aligned_ref) /\ aligned_ref[i] = measured[i]

\* C13: in both modes every index chosen as an interface residue is an
\* index of the aligned residue lists given to get_interface_atoms and
\* names there the native residue whose distance put it in the interface,
\* also when the aligned lists are shorter than the native chains.
C13_InterfaceIndicesValid ==
    i_interacting_pairs # None =>
        /\ IndicesDenote(i_interacting_pairs[1], i_aligned.ref1, i_matrix_res[1])
        /\ IndicesDenote(i_interacting_pairs[2], i_aligned.ref2, i_matrix_res[2])
        /\ i_pc # "crashed"

\* ------------------------------------------------------------------------
\* Properties of the atom lists (checked under SpecAtoms)
\* ------------------------------------------------------------------------

\* two atom lists of one length whose k-th atoms are the same atom of the
\* same residue
AtomForAtom(model_atoms, native_atoms) ==
    /\ Len(model_atoms) = Len(native_atoms)
    /\ \A k \in 1..Len(model_atoms) : model_atoms[k] = native_atoms[k]

\* C14: the model and the native atom lists given to a superposition or an
\* RMSD have one length and their k-th atoms carry the same atom id in the
\* corresponding residue: the interface lists of get_interface_atoms and
\* the receptor and ligand lists of get_atoms_per_residue, also when one
\* version of a residue lacks a backbone atom or lists its atoms in another
\* order.
C14_AtomListsCorrespond ==
    /\ t_interface # None => AtomForAtom(t_interface.mod, t_interface.ref)
    /\ t_chain_atoms # None =>
          \A g \in {1, 2} : AtomForAtom(t_chain_atoms[g].sample, t_chain_atoms[g].native)

====
